---- MODULE Spec2Model ----
(***************************************************************************)
(* Model of the CRDP multiplexor (src/chrome/crdpMultiplexing/             *)
(* crdpMultiplexor.ts) and of the way ChromeConnection configures it       *)
(* (src/chrome/chromeConnection.ts).                                       *)
(*                                                                         *)
(* Strings are sequences of text fragments ("atoms").  The atom "." is the *)
(* dot character; every other atom is a dot-free piece of text, and the    *)
(* atom "Debugger" is the only one whose text contains "Debugger".  A      *)
(* JSON message is a record: id is <<>> when the message has no id and     *)
(* <<n>> when it has the id n, method is <<>> when absent (or empty, both  *)
(* are falsy in the code) and body stands for the rest of the payload.     *)
(***************************************************************************)
EXTENDS Integers, Sequences, FiniteSets

VARIABLES
    channelWithNoDebuggerNotification, \* CRDPMultiplexor._channelWithNoDebuggerNotification
    channels,       \* CRDPMultiplexor._channels, a sequence of CRDPChannel records
    socketSent,     \* what _wrappedLikeSocket.send was called with, in order
    requests,       \* for each entry of socketSent, the channel and the message it sent
    delivered,      \* per channel, every invocation of one of its 'message' callbacks, in order
    discarded,      \* <<channel id, payload>> dropped by discardUnsentPendingMessages
    received,       \* number of messages the transport has delivered so far
    steps,          \* number of operations performed so far
    last            \* the operation that produced this state and how it ended

vars == <<channelWithNoDebuggerNotification, channels, socketSent, requests, delivered,
          discarded, received, steps, last>>

(***************************************************************************)
(* Bounds of the model.                                                    *)
(***************************************************************************)
\* The number of operations of a behaviour.
MaxSteps == 5

\* The channel capacity of addChannel.
ChannelCapacity == 10

\* The largest request id a consumer issues in the codec specification.
MaxCodecId == 12

(***************************************************************************)
(* String helpers.                                                         *)
(***************************************************************************)
DigitChars == <<"0", "1", "2", "3", "4", "5", "6", "7", "8", "9">>

\* Number.prototype.toString of a non-negative integer.
RECURSIVE NumberToString(_)
NumberToString(n) ==
    IF n < 10 THEN <<DigitChars[n + 1]>>
    ELSE NumberToString(n \div 10) \o <<DigitChars[(n % 10) + 1]>>

\* TRUE iff needle occurs in hay starting at (1-based) position p.
MatchesAt(hay, needle, p) ==
    /\ p + Len(needle) - 1 <= Len(hay)
    /\ \A k \in 1..Len(needle) : hay[p + k - 1] = needle[k]

\* String.prototype.indexOf: the 0-based position of the first occurrence, or -1.
IndexOf(hay, needle) ==
    LET hits == {p \in 1..(Len(hay) + 1) : MatchesAt(hay, needle, p)}
    IN  IF hits = {} THEN -1
        ELSE (CHOOSE p \in hits : \A q \in hits : p <= q) - 1

\* String.prototype.endsWith.
EndsWith(s, suffix) ==
    /\ Len(suffix) <= Len(s)
    /\ MatchesAt(s, suffix, Len(s) - Len(suffix) + 1)

\* String.prototype.split("."): the dot-separated parts, in order.
RECURSIVE Split(_)
Split(s) ==
    LET dot == IndexOf(s, <<".">>)
    IN  IF dot = -1 THEN <<s>>
        ELSE <<SubSeq(s, 1, dot)>> \o Split(SubSeq(s, dot + 2, Len(s)))

\* Array.prototype.indexOf: the 0-based position of the first element equal to x, or -1.
ArrayIndexOf(arr, x) ==
    LET hits == {p \in 1..Len(arr) : arr[p] = x}
    IN  IF hits = {} THEN -1
        ELSE (CHOOSE p \in hits : \A q \in hits : p <= q) - 1

\* Array.prototype.splice(index, 1): a negative index counts from the end.
Splice1(arr, index) ==
    LET start == IF index < 0
                 THEN (IF Len(arr) + index < 0 THEN 0 ELSE Len(arr) + index)
                 ELSE (IF index > Len(arr) THEN Len(arr) ELSE index)
    IN  [k \in 1..(IF start < Len(arr) THEN Len(arr) - 1 ELSE Len(arr)) |->
            IF k <= start THEN arr[k] ELSE arr[k + 1]]

(***************************************************************************)
(* The functions of the multiplexor module.                                *)
(***************************************************************************)
\* extractDomain: the first part, or a throw when there are not exactly two.
\* A slip: the number of parts not tested.
extractDomainUntested(method) ==
    [threw |-> FALSE, domain |-> Split(method)[1]]

extractDomain(method) ==
    LET methodParts == Split(method)
    IN  IF Len(methodParts) = 2
        THEN [threw |-> FALSE, domain |-> methodParts[1]]
        ELSE [threw |-> TRUE, domain |-> <<"Unknown">>]

\* A slip: the two arguments the wrong way round.
encodifyChannelSwapped(channelId, id) == channelId * 10 + id

encodifyChannel(channelId, id) == id * 10 + channelId

\* A slip: the channel taken from the leading digits.
decodifyChannelIdLeading(encodifiedId) == encodifiedId \div 10

\* The % of the code: the remainder has the sign of the dividend.
decodifyChannelId(encodifiedId) ==
    IF encodifiedId >= 0 THEN encodifiedId % 10 ELSE -((-encodifiedId) % 10)

\* A slip: Math.round instead of Math.floor.
decodifyIdRounded(encodifiedId) == (encodifiedId + 5) \div 10

\* Math.floor(encodifiedId / 10).
decodifyId(encodifiedId) == encodifiedId \div 10

(***************************************************************************)
(* Messages.                                                               *)
(***************************************************************************)
NoId == <<>>
NoMethod == <<>>
NoMessage == [id |-> NoId, method |-> NoMethod, body |-> 0]

Message(id, method, body) == [id |-> id, method |-> method, body |-> body]

DebuggerEnable == <<"Debugger", ".", "enable">>
NodeRuntimeEnable == <<"NodeRuntime", ".", "enable">>
RuntimeEvaluate == <<"Runtime", ".", "evaluate">>

DebuggerPaused == <<"Debugger", ".", "paused">>
WaitingForDisconnect == <<"NodeRuntime", ".", "waitingFor", "Disconnect">>
WaitingForDebugger == <<"NodeRuntime", ".", "waitingFor", "Debugger">>
NoDotMethod == <<"Debugger">>
ThreePartMethod == <<"Debugger", ".", "script", ".", "parsed">>

\* The enable requests a channel's consumer sends.
EnableRequests ==
    { Message(<<5>>, DebuggerEnable, 0),
      Message(<<5>>, NodeRuntimeEnable, 0) }

\* The notifications the transport delivers as its n-th message.
Notifications(n) ==
    {Message(NoId, m, n) : m \in {DebuggerPaused, WaitingForDisconnect, WaitingForDebugger}}

\* The requests a channel's consumer sends in the routing specification.
RoutingRequests ==
    { Message(<<5>>, RuntimeEvaluate, 0),
      Message(<<5>>, DebuggerEnable, 0) }

\* The responses the transport delivers as its n-th message.
Responses(n) == {Message(<<i>>, NoMethod, n) : i \in {50, 51}}

\* An enable request whose method has three parts.
ThreePartEnable == <<"Debugger", ".", "script", ".", "enable">>

\* What a consumer sends in the specification of the failures: requests
\* with and without an id, enable requests among them.
FaultyRequests ==
    { Message(<<5>>, DebuggerEnable, 0),
      Message(NoId, DebuggerEnable, 0),
      Message(NoId, RuntimeEvaluate, 0),
      Message(<<5>>, ThreePartEnable, 0) }

\* What the transport delivers as its n-th message in the specification of
\* the failures: a notification, two malformed ones, a response for channel
\* 1, a response for a channel that does not exist, and a message with
\* neither id nor method.
Inbound(n) ==
    { Message(NoId, DebuggerPaused, n),
      Message(NoId, NoDotMethod, n),
      Message(NoId, ThreePartMethod, n),
      Message(<<51>>, NoMethod, n),
      Message(<<52>>, NoMethod, n),
      Message(NoId, NoMethod, n) }

\* The events a consumer subscribes to and unsubscribes from.
Events == {"message", "open"}

\* The callbacks the consumer of channel c registers: the proxy of an extra
\* channel has one, the client of the last channel has two.
CallbacksOf(c) == IF c = 0 THEN {"proxyOnMessage"} ELSE {"clientOnMessage", "clientLogger"}

(***************************************************************************)
(* ChromeConnection.attachToWebsocketUrl: the names it gives to channels   *)
(* and the string it passes as channelWithNoDebuggerNotification.          *)
(***************************************************************************)
ExtraPortLists == {<<92>>}
NoDebuggerPorts == {0, 9}

ExtraChannelName(extraCRDPChannelPort) ==
    <<"extraCRDPEndpoint ">> \o NumberToString(extraCRDPChannelPort)

DebuggerChannelName == <<"debugger">>

NoDebuggerString(port) == IF port # 0 THEN NumberToString(port) ELSE <<>>

ChannelNames ==
    {DebuggerChannelName}
    \cup UNION {{ExtraChannelName(ports[k]) : k \in 1..Len(ports)} : ports \in ExtraPortLists}

(***************************************************************************)
(* CRDPChannel.                                                            *)
(***************************************************************************)
EmptyMap == [d \in {} |-> <<>>]

\* A slip: the eviction timer started by the constructor.
NewChannelWithTimer(name, id) ==
    [ name |-> name,
      id |-> id,
      messageCallbacks |-> <<>>,
      enabledDomains |-> {},
      pendingMessagesForDomain |-> [d \in {} |-> <<>>],
      pendingIsNull |-> FALSE,
      timers |-> 1,
      timersStarted |-> 0 ]

\* new CRDPChannel(name, id, multiplexor); timers counts the eviction timers
\* that setTimeout has scheduled and that have not fired yet, timersStarted
\* the calls of setTimeout so far.
NewChannel(name, id) ==
    [ name |-> name,
      id |-> id,
      messageCallbacks |-> <<>>,
      enabledDomains |-> {},
      pendingMessagesForDomain |-> EmptyMap,
      pendingIsNull |-> FALSE,
      timers |-> 0,
      timersStarted |-> 0 ]

Delivery(ch, cb, data) == [channel |-> ch.id, cb |-> cb, data |-> data]

\* The invocations out, each added to the record of its channel.
RECURSIVE Record(_, _)
Record(log, out) ==
    IF out = <<>> THEN log
    ELSE Record([log EXCEPT ![out[1].channel + 1] = Append(@, out[1])], Tail(out))

\* callMessageCallbacks: every callback is called, in the order of the array.
callMessageCallbacks(ch, messageData) ==
    [k \in 1..Len(ch.messageCallbacks) |->
        Delivery(ch, ch.messageCallbacks[k], messageData)]

\* A slip: unshift instead of push.
storeMessageForLaterFirst(ch, domain, messageData) ==
    LET map == ch.pendingMessagesForDomain
        messagesForDomain == IF domain \in DOMAIN map THEN map[domain] ELSE <<>>
    IN  [ch EXCEPT !.pendingMessagesForDomain =
            [d \in (DOMAIN map) \cup {domain} |->
                IF d = domain THEN <<messageData>> \o messagesForDomain ELSE map[d]]]

\* storeMessageForLater: the channel after the push.
storeMessageForLater(ch, domain, messageData) ==
    LET map == ch.pendingMessagesForDomain
        messagesForDomain == IF domain \in DOMAIN map THEN map[domain] ELSE <<>>
    IN  [ch EXCEPT !.pendingMessagesForDomain =
            [d \in (DOMAIN map) \cup {domain} |->
                IF d = domain THEN Append(messagesForDomain, messageData) ELSE map[d]]]

\* A slip: the test for the discarded buffer left out.
callDomainMessageCallbacksNoNullTest(ch, domain, messageData) ==
    IF domain \in ch.enabledDomains
    THEN [chan |-> ch, out |-> callMessageCallbacks(ch, messageData)]
    ELSE [chan |-> storeMessageForLater(ch, domain, messageData), out |-> <<>>]

\* callDomainMessageCallbacks: the channel afterwards and the callbacks called.
callDomainMessageCallbacks(ch, domain, messageData) ==
    IF domain \in ch.enabledDomains
    THEN [chan |-> ch, out |-> callMessageCallbacks(ch, messageData)]
    ELSE IF ~ch.pendingIsNull
    THEN [chan |-> storeMessageForLater(ch, domain, messageData), out |-> <<>>]
    ELSE [chan |-> ch, out |-> <<>>]

\* The forEach of sendUnsentPendingMessages over the messages from position k on.
RECURSIVE ReplayPending(_, _, _, _)
ReplayPending(ch, domain, pendingMessagesData, k) ==
    IF k > Len(pendingMessagesData) THEN [chan |-> ch, out |-> <<>>]
    ELSE LET one == callDomainMessageCallbacks(ch, domain, pendingMessagesData[k])
             rest == ReplayPending(one.chan, domain, pendingMessagesData, k + 1)
         IN  [chan |-> rest.chan, out |-> one.out \o rest.out]

\* A slip: the delete of the flushed array left out.
sendUnsentPendingMessagesNoDelete(ch, domain) ==
    LET map == ch.pendingMessagesForDomain
    IN  IF /\ ~ch.pendingIsNull
           /\ domain \in DOMAIN map
           /\ Len(ch.messageCallbacks) # 0
        THEN ReplayPending(ch, domain, map[domain], 1)
        ELSE [chan |-> ch, out |-> <<>>]

\* sendUnsentPendingMessages: the channel afterwards and the callbacks called.
sendUnsentPendingMessages(ch, domain) ==
    LET map == ch.pendingMessagesForDomain
    IN  IF /\ ~ch.pendingIsNull
           /\ domain \in DOMAIN map
           /\ Len(ch.messageCallbacks) # 0
        THEN ReplayPending(
                [ch EXCEPT !.pendingMessagesForDomain =
                    [d \in (DOMAIN map) \ {domain} |-> map[d]]],
                domain, map[domain], 1)
        ELSE [chan |-> ch, out |-> <<>>]

(***************************************************************************)
(* The record of the last operation.                                       *)
(***************************************************************************)
Last(op, ch, msg, cb, err) == [op |-> op, ch |-> ch, msg |-> msg, cb |-> cb, err |-> err]

(***************************************************************************)
(* CRDPMultiplexor.                                                        *)
(***************************************************************************)
\* A slip: the channel's name compared with ===, not searched with indexOf.
SkipsNotificationExactName(config, ch, method) ==
    /\ config # <<>>
    /\ ch.name = config
    /\ IndexOf(method, <<"Debugger">>) >= 0

\* The test of onDomainNotification that makes the loop skip a channel.
SkipsNotification(config, ch, method) ==
    /\ config # <<>>
    /\ IndexOf(ch.name, config) >= 0
    /\ IndexOf(method, <<"Debugger">>) >= 0

\* The loop of onDomainNotification over the channels from position k on.
RECURSIVE FanOut(_, _, _, _, _)
FanOut(config, chans, domain, message, k) ==
    IF k > Len(chans) THEN [chans |-> chans, out |-> <<>>]
    ELSE IF SkipsNotification(config, chans[k], message.method)
    THEN FanOut(config, chans, domain, message, k + 1)
    ELSE LET one == callDomainMessageCallbacks(chans[k], domain, message)
             rest == FanOut(config, [chans EXCEPT ![k] = one.chan], domain, message, k + 1)
         IN  [chans |-> rest.chans, out |-> one.out \o rest.out]

\* A slip: > instead of >= in the capacity test.
AddChannelOffByOne(channelName) ==
    /\ IF Len(channels) > ChannelCapacity
       THEN /\ UNCHANGED <<channels, delivered>>
            /\ last' = Last("addChannel", -1, NoMessage, "", "Only 10 channels are supported")
       ELSE /\ channels' = Append(channels, NewChannel(channelName, Len(channels)))
            /\ delivered' = Append(delivered, <<>>)
            /\ last' = Last("addChannel", Len(channels), NoMessage, "", "none")
    /\ UNCHANGED <<channelWithNoDebuggerNotification, socketSent, requests,
                   discarded, received>>

\* addChannel(channelName): throws at capacity, else appends a channel whose id is its index.
AddChannel(channelName) ==
    /\ IF Len(channels) >= ChannelCapacity
       THEN /\ UNCHANGED <<channels, delivered>>
            /\ last' = Last("addChannel", -1, NoMessage, "", "Only 10 channels are supported")
       ELSE /\ channels' = Append(channels, NewChannel(channelName, Len(channels)))
            /\ delivered' = Append(delivered, <<>>)
            /\ last' = Last("addChannel", Len(channels), NoMessage, "", "none")
    /\ UNCHANGED <<channelWithNoDebuggerNotification, socketSent, requests,
                   discarded, received>>

\* A slip: the index wrapped round to the channels there are.
OnResponseMessageWrapped(message) ==
    LET index == decodifyChannelId(message.id[1]) % Len(channels)
        data == [message EXCEPT !.id = <<decodifyId(message.id[1])>>]
    IN  /\ delivered' = Record(delivered, callMessageCallbacks(channels[index + 1], data))
        /\ last' = Last("response", index, message, "", "none")
        /\ UNCHANGED <<channels>>

\* onResponseMessage.
OnResponseMessage(message) ==
    LET index == decodifyChannelId(message.id[1])
    IN  IF index >= 0 /\ index < Len(channels)
        THEN LET data == [message EXCEPT !.id = <<decodifyId(message.id[1])>>]
             IN  /\ delivered' = Record(delivered, callMessageCallbacks(channels[index + 1], data))
                 /\ last' = Last("response", index, message, "", "none")
                 /\ UNCHANGED <<channels>>
        ELSE /\ last' = Last("response", -1, message, "", "Didn't find channel")
             /\ UNCHANGED <<channels, delivered>>

\* onDomainNotification.
OnDomainNotification(message) ==
    LET extracted == extractDomain(message.method)
    IN  IF extracted.threw
        THEN /\ last' = Last("notification", -1, message, "", "didn't have exactly two parts")
             /\ UNCHANGED <<channels, delivered>>
        ELSE LET result == FanOut(channelWithNoDebuggerNotification, channels,
                                  extracted.domain, message, 1)
             IN  /\ channels' = result.chans
                 /\ delivered' = Record(delivered, result.out)
                 /\ last' = Last("notification", -1, message, "", "none")

\* onMessage(data): the transport delivers its next message.
OnMessage(message) ==
    /\ received' = received + 1
    /\ IF message.id # NoId THEN OnResponseMessage(message)
       ELSE IF message.method # NoMethod THEN OnDomainNotification(message)
       ELSE /\ last' = Last("message", -1, message, "", "didn't have id nor method")
            /\ UNCHANGED <<channels, delivered>>
    /\ UNCHANGED <<channelWithNoDebuggerNotification, socketSent, requests, discarded>>

\* A slip: CRDPMultiplexor.send without its else branch, so that a message
\* with no id goes out as it is.
ChannelSendNoIdGoesOut(c, message) ==
    LET ch == channels[c + 1]
        method == message.method
        isEnableMethod == method # NoMethod /\ EndsWith(method, <<".", "enable">>)
        extracted == extractDomain(method)
        enabled == [ch EXCEPT !.enabledDomains = @ \cup {extracted.domain}]
    IN  /\ IF isEnableMethod /\ extracted.threw
           THEN /\ last' = Last("send", c, message, "", "didn't have exactly two parts")
                /\ UNCHANGED <<channels, socketSent, requests, delivered>>
           ELSE LET flushed == IF isEnableMethod
                               THEN sendUnsentPendingMessages(enabled, extracted.domain)
                               ELSE [chan |-> ch, out |-> <<>>]
                IN  /\ socketSent' = Append(socketSent,
                            IF message.id = NoId THEN message
                            ELSE [message EXCEPT !.id = <<encodifyChannel(ch.id, message.id[1])>>])
                    /\ requests' = Append(requests, [channel |-> c, message |-> message])
                    /\ channels' = [channels EXCEPT ![c + 1] = flushed.chan]
                    /\ delivered' = Record(delivered, flushed.out)
                    /\ last' = Last("send", c, message, "", "none")
        /\ UNCHANGED <<channelWithNoDebuggerNotification, discarded, received>>

\* CRDPChannel.send(messageData), with CRDPMultiplexor.send inlined.
ChannelSend(c, message) ==
    LET ch == channels[c + 1]
        method == message.method
        isEnableMethod == method # NoMethod /\ EndsWith(method, <<".", "enable">>)
        extracted == extractDomain(method)
        enabled == [ch EXCEPT !.enabledDomains = @ \cup {extracted.domain}]
    IN  /\ IF isEnableMethod /\ extracted.threw
           THEN \* extractDomain throws before anything changed
                /\ last' = Last("send", c, message, "", "didn't have exactly two parts")
                /\ UNCHANGED <<channels, socketSent, requests, delivered>>
           ELSE IF message.id = NoId
           THEN \* CRDPMultiplexor.send throws; the domain is already marked
                /\ channels' = [channels EXCEPT ![c + 1] = IF isEnableMethod THEN enabled ELSE ch]
                /\ last' = Last("send", c, message, "", "sent a message without an id")
                /\ UNCHANGED <<socketSent, requests, delivered>>
           ELSE LET flushed == IF isEnableMethod
                               THEN sendUnsentPendingMessages(enabled, extracted.domain)
                               ELSE [chan |-> ch, out |-> <<>>]
                IN  /\ socketSent' = Append(socketSent,
                            [message EXCEPT !.id = <<encodifyChannel(ch.id, message.id[1])>>])
                    /\ requests' = Append(requests, [channel |-> c, message |-> message])
                    /\ channels' = [channels EXCEPT ![c + 1] = flushed.chan]
                    /\ delivered' = Record(delivered, flushed.out)
                    /\ last' = Last("send", c, message, "", "none")
        /\ UNCHANGED <<channelWithNoDebuggerNotification, discarded, received>>

\* CRDPChannel.on(event, cb).
On(c, event, cb) ==
    LET ch == channels[c + 1]
    IN  IF event = "message"
        THEN /\ channels' = [channels EXCEPT ![c + 1] =
                    [ch EXCEPT !.timers = IF Len(ch.messageCallbacks) = 0 THEN @ + 1 ELSE @,
                               !.timersStarted =
                                    IF Len(ch.messageCallbacks) = 0 THEN @ + 1 ELSE @,
                               !.messageCallbacks = Append(@, cb)]]
             /\ last' = Last("on", c, NoMessage, cb, "none")
             /\ UNCHANGED <<channelWithNoDebuggerNotification, socketSent, requests, delivered,
                            discarded, received>>
        ELSE \* handed to the transport, whose listeners are not part of the model
             /\ last' = Last("addListenerOfNonMultiplexedEvent", c, NoMessage, cb, "none")
             /\ UNCHANGED <<channels, channelWithNoDebuggerNotification, socketSent, requests,
                            delivered, discarded, received>>

\* CRDPChannel.removeListener(event, cb).
RemoveListener(c, event, cb) ==
    LET ch == channels[c + 1]
        index == ArrayIndexOf(ch.messageCallbacks, cb)
    IN  IF event = "message"
        THEN /\ channels' = [channels EXCEPT ![c + 1] =
                    [ch EXCEPT !.messageCallbacks = Splice1(@, index)]]
             /\ last' = Last("removeListener", c, NoMessage, cb, "none")
             /\ UNCHANGED <<channelWithNoDebuggerNotification, socketSent, requests, delivered,
                            discarded, received>>
        ELSE /\ last' = Last("removeListenerOfNonMultiplexedEvent", c, NoMessage, cb, "none")
             /\ UNCHANGED <<channels, channelWithNoDebuggerNotification, socketSent, requests,
                            delivered, discarded, received>>

\* The payloads a channel holds in its pending arrays, tagged with its id.
PendingPayloads(ch) ==
    UNION {{<<ch.id, ch.pendingMessagesForDomain[d][k]>> :
                k \in 1..Len(ch.pendingMessagesForDomain[d])} :
           d \in DOMAIN ch.pendingMessagesForDomain}

\* An eviction timer of channel c fires: discardUnsentPendingMessages.
TimerFires(c) ==
    LET ch == channels[c + 1]
    IN  /\ ch.timers > 0
        /\ IF ch.pendingIsNull
           THEN \* Object.keys(null) throws
                /\ channels' = [channels EXCEPT ![c + 1] = [ch EXCEPT !.timers = @ - 1]]
                /\ last' = Last("timer", c, NoMessage, "", "Cannot convert undefined or null to object")
                /\ UNCHANGED discarded
           ELSE /\ channels' = [channels EXCEPT ![c + 1] =
                        [ch EXCEPT !.timers = @ - 1,
                                   !.pendingMessagesForDomain = EmptyMap,
                                   !.pendingIsNull = TRUE]]
                /\ discarded' = discarded \cup PendingPayloads(ch)
                /\ last' = Last("timer", c, NoMessage, "", "none")
        /\ UNCHANGED <<channelWithNoDebuggerNotification, socketSent, requests, delivered,
                       received>>

(***************************************************************************)
(* The specification: a multiplexor as ChromeConnection constructs it,     *)
(* with no channel yet, and every operation on it in any order.            *)
(***************************************************************************)
ChannelIds == 0..(Len(channels) - 1)

\* The multiplexor that new CRDPMultiplexor(socket, config) constructs.
InitEmpty ==
    /\ channelWithNoDebuggerNotification \in {NoDebuggerString(p) : p \in NoDebuggerPorts}
    /\ channels = <<>>
    /\ socketSent = <<>>
    /\ requests = <<>>
    /\ delivered = <<>>
    /\ discarded = {}
    /\ received = 0
    /\ steps = 0
    /\ last = Last("init", -1, NoMessage, "", "none")

\* The channels attachToWebsocketUrl adds: one per extra port, then 'debugger'.
AttachedChannels(extraCRDPChannelPorts) ==
    [k \in 1..(Len(extraCRDPChannelPorts) + 1) |->
        IF k <= Len(extraCRDPChannelPorts)
        THEN NewChannel(ExtraChannelName(extraCRDPChannelPorts[k]), k - 1)
        ELSE NewChannel(DebuggerChannelName, k - 1)]

\* The multiplexor after attachToWebsocketUrl(wsUrl, ports, port).
Init ==
    \E ports \in ExtraPortLists, port \in NoDebuggerPorts :
        /\ channelWithNoDebuggerNotification = NoDebuggerString(port)
        /\ channels = AttachedChannels(ports)
        /\ socketSent = <<>>
        /\ requests = <<>>
        /\ delivered = [k \in 1..(Len(ports) + 1) |-> <<>>]
        /\ discarded = {}
        /\ received = 0
        /\ steps = 0
        /\ last = Last("init", -1, NoMessage, "", "none")

\* One more operation, within the bound.
Step == steps < MaxSteps /\ steps' = steps + 1

OnStep ==
    \E c \in ChannelIds : \E cb \in CallbacksOf(c) : Step /\ On(c, "message", cb)

TimerStep == \E c \in ChannelIds : Step /\ TimerFires(c)

EnableStep ==
    \E c \in ChannelIds, m \in EnableRequests : Step /\ ChannelSend(c, m)

NotificationStep ==
    \E m \in Notifications(received + 1) : Step /\ OnMessage(m)

Next ==
    \/ OnStep
    \/ TimerStep
    \/ EnableStep
    \/ NotificationStep

\* Subscriptions, timers, enable requests and notifications.
Spec == Init /\ [][Next]_vars

RequestStep ==
    \E c \in ChannelIds, m \in RoutingRequests : Step /\ ChannelSend(c, m)

ResponseStep ==
    \E m \in Responses(received + 1) : Step /\ OnMessage(m)

NextRouting ==
    \/ OnStep
    \/ TimerStep
    \/ RequestStep
    \/ ResponseStep

\* Subscriptions, timers, requests and responses.
SpecRouting == Init /\ [][NextRouting]_vars

AddChannelStep ==
    \E n \in ChannelNames : AddChannel(n) /\ UNCHANGED steps

NextCap == AddChannelStep

\* addChannel alone, from the empty multiplexor.
SpecCap == InitEmpty /\ [][NextCap]_vars

\* A multiplexor with as many channels as it can hold, each with one subscriber.
InitCodec ==
    /\ channelWithNoDebuggerNotification \in {NoDebuggerString(p) : p \in NoDebuggerPorts}
    /\ channels = [k \in 1..ChannelCapacity |->
                     [NewChannel(DebuggerChannelName, k - 1) EXCEPT
                         !.messageCallbacks = <<"clientOnMessage">>,
                         !.timers = 1, !.timersStarted = 1]]
    /\ socketSent = <<>>
    /\ requests = <<>>
    /\ delivered = [k \in 1..ChannelCapacity |-> <<>>]
    /\ discarded = {}
    /\ received = 0
    /\ steps = 0
    /\ last = Last("init", -1, NoMessage, "", "none")

\* One channel sends one request ...
CodecRequestStep ==
    \E c \in ChannelIds, i \in 0..MaxCodecId :
        /\ socketSent = <<>>
        /\ ChannelSend(c, Message(<<i>>, RuntimeEvaluate, 0))
        /\ UNCHANGED steps

\* ... and the transport answers it with the id it was sent.
CodecReplyStep ==
    /\ socketSent # <<>>
    /\ received = 0
    /\ OnMessage(Message(socketSent[1].id, NoMethod, 1))
    /\ UNCHANGED steps

NextCodec ==
    \/ CodecRequestStep
    \/ CodecReplyStep

\* One request of any channel with any id, and its reply.
SpecCodec == InitCodec /\ [][NextCodec]_vars

SubscribeStep ==
    \E c \in ChannelIds, e \in Events : \E cb \in CallbacksOf(c) : Step /\ On(c, e, cb)

UnsubscribeStep ==
    \E c \in ChannelIds, e \in Events : \E cb \in CallbacksOf(c) :
        Step /\ RemoveListener(c, e, cb)

NextListeners ==
    \/ SubscribeStep
    \/ UnsubscribeStep
    \/ TimerStep

\* Subscriptions, removals and timers.
SpecListeners == Init /\ [][NextListeners]_vars

FaultySendStep ==
    \E c \in ChannelIds, m \in FaultyRequests : Step /\ ChannelSend(c, m)

InboundStep ==
    \E m \in Inbound(received + 1) : Step /\ OnMessage(m)

NextFaults ==
    \/ OnStep
    \/ TimerStep
    \/ FaultySendStep
    \/ InboundStep

\* Subscriptions, timers, sends that fail and inbound messages that fail.
SpecFaults == Init /\ [][NextFaults]_vars

(***************************************************************************)
(* Properties.                                                             *)
(***************************************************************************)
\* What handing data to every current subscriber of channel c adds to its record.
ToSubscribers(c, data) ==
    [k \in 1..Len(channels[c + 1].messageCallbacks) |->
        [channel |-> c, cb |-> channels[c + 1].messageCallbacks[k], data |-> data]]

\* C1: when the transport delivers a message with an id whose last decimal
\* digit is c and channel c exists, the message, with its id divided by 10,
\* is handed to every current subscriber of channel c, in order, and to no
\* subscriber of another channel, whatever channel c has enabled and whether
\* or not it is tombstoned.
C1_ResponseToOwnChannelOnly ==
    [][last'.op = "response" =>
        LET id == last'.msg.id[1]
            c == id % 10
        IN  c < Len(channels) =>
              /\ delivered'[c + 1] =
                    delivered[c + 1] \o ToSubscribers(c, [last'.msg EXCEPT !.id = <<id \div 10>>])
              /\ \A o \in ChannelIds \ {c} : delivered'[o + 1] = delivered[o + 1]]_vars

\* A response reached the subscriber of a tombstoned channel that has enabled
\* nothing, while the other channel, which has a subscriber too, got nothing.
C1_Witness ==
    /\ last.op = "response"
    /\ last.err = "none"
    /\ channels[last.ch + 1].pendingIsNull
    /\ channels[last.ch + 1].enabledDomains = {}
    /\ Len(delivered[last.ch + 1]) > 0
    /\ \E o \in ChannelIds \ {last.ch} :
          Len(channels[o + 1].messageCallbacks) > 0 /\ delivered[o + 1] = <<>>

\* C2: for every channel id c in 0..9 and request id i >= 0, decoding the
\* encoded id gives back c and i: the id a channel put on the transport
\* decodes to that channel and to the id its consumer issued, no other channel
\* can produce that encoded id, and the reply is handed to that channel with
\* the issued id.
C2_CodecRoundTrip ==
    /\ \A k \in 1..Len(socketSent) :
          LET encoded == socketSent[k].id[1]
              c == requests[k].channel
          IN  /\ decodifyChannelId(encoded) = c
              /\ decodifyId(encoded) = requests[k].message.id[1]
              /\ \A c2 \in (0..9) \ {c}, i2 \in 0..MaxCodecId :
                    encodifyChannel(c2, i2) # encoded
    /\ last.op = "response" =>
          /\ last.err = "none"
          /\ last.ch = requests[1].channel
          /\ Len(delivered[last.ch + 1]) = 1
          /\ delivered[last.ch + 1][1].data.id = requests[1].message.id

\* Channel 9 got the reply to its request with the largest id.
C2_Witness ==
    /\ last.op = "response"
    /\ last.ch = 9
    /\ requests[1] = [channel |-> 9, message |-> Message(<<MaxCodecId>>, RuntimeEvaluate, 0)]
    /\ delivered[10] # <<>>

\* The general statement of C3: a send of a message with id i on channel c
\* puts exactly one message on the transport, the sent message with its id
\* replaced by i*10 + c, and a later reply with the id i*10 + c is handed to
\* the subscribers of channel c with the id i.
SendEncodesReplyDecodes ==
    /\ (last'.op = "send" /\ last'.msg.id # NoId) =>
          socketSent' = Append(socketSent,
                [last'.msg EXCEPT !.id = <<last'.msg.id[1] * 10 + last'.ch>>])
    /\ last'.op = "response" =>
          \A k \in 1..Len(requests) :
              LET c == requests[k].channel
                  i == requests[k].message.id[1]
              IN  last'.msg.id = <<i * 10 + c>> =>
                    delivered'[c + 1] =
                        delivered[c + 1] \o ToSubscribers(c, [last'.msg EXCEPT !.id = <<i>>])

\* The example of C3 with the encoded id e: channel 1 transmits id 5 as e.
ExampleTransmittedAs(e) ==
    (last'.op = "send" /\ last'.ch = 1 /\ last'.msg.id = <<5>>) =>
        socketSent'[Len(socketSent')].id = <<e>>

\* C3 as stated: the general statement, and the example in which channel 1
\* transmits id 5 as 15.
C3_AsStated == [][SendEncodesReplyDecodes /\ ExampleTransmittedAs(15)]_vars

\* C3 amended: the general statement, and the example in which channel 1
\* transmits id 5 as 51 and receives the reply 51 with the id 5.
C3_SendEncodesReplyDecodes ==
    [][/\ SendEncodesReplyDecodes
       /\ ExampleTransmittedAs(51)
       /\ (last'.op = "response" /\ last'.msg.id = <<51>>) =>
             delivered'[2] = delivered[2] \o ToSubscribers(1, [last'.msg EXCEPT !.id = <<5>>])]_vars

\* Channel 1 sent id 5, it went out as 51, and its subscriber got the reply as 5.
C3_Witness ==
    /\ last.op = "response"
    /\ last.msg.id = <<51>>
    /\ \E k \in 1..Len(requests) :
          /\ requests[k].channel = 1
          /\ requests[k].message.id = <<5>>
          /\ socketSent[k].id = <<51>>
    /\ delivered[2] # <<>>
    /\ delivered[2][Len(delivered[2])].data = [last.msg EXCEPT !.id = <<5>>]

\* C9: from the empty multiplexor addChannel succeeds exactly 10 times, the
\* k-th success returning the channel with id k-1, its index in the list, and
\* every later call fails and leaves the list unchanged.
C9_TenChannels ==
    [][last'.op = "addChannel" =>
        IF Len(channels) < 10
        THEN /\ last'.err = "none"
             /\ last'.ch = Len(channels)
             /\ Len(channels') = Len(channels) + 1
             /\ channels'[Len(channels')].id = Len(channels)
             /\ \A k \in 1..Len(channels) : channels'[k] = channels[k]
        ELSE /\ last'.err # "none"
             /\ channels' = channels]_vars

\* The multiplexor holds 10 channels with the ids 0..9 and has just refused another.
C9_Witness ==
    /\ last.op = "addChannel"
    /\ last.err # "none"
    /\ Len(channels) = 10
    /\ \A k \in 1..10 : channels[k].id = k - 1

(***************************************************************************)
(* Notifications: what the properties below speak of.                      *)
(***************************************************************************)
\* The part of a two-part method before the dot.
DomainOf(method) == extractDomain(method).domain

\* The domains of the methods the specification uses.
Domains == {<<"Debugger">>, <<"NodeRuntime">>}

\* The pending sequence of a channel for a domain, empty when there is none.
Pending(ch, D) ==
    IF D \in DOMAIN ch.pendingMessagesForDomain THEN ch.pendingMessagesForDomain[D] ELSE <<>>

\* The channel's name contains the configured, non-empty substring.
NameSuppressed(ch) ==
    /\ channelWithNoDebuggerNotification # <<>>
    /\ IndexOf(ch.name, channelWithNoDebuggerNotification) >= 0

\* Suppression as the specification defines it: by name, for the Debugger domain.
SuppressedFor(ch, D) == NameSuppressed(ch) /\ D = <<"Debugger">>

\* This step is the arrival of a well-formed notification.
NotificationArrives == last'.op = "notification" /\ last'.err = "none"

\* This step is channel c's accepted send of the enable request of domain D.
EnableSent(c, D) ==
    /\ last'.op = "send"
    /\ last'.err = "none"
    /\ last'.ch = c
    /\ last'.msg.method = D \o <<".", "enable">>

\* What delivering the payloads from position k on, each to every current
\* subscriber of channel c, adds to its record.
RECURSIVE Flushed(_, _, _)
Flushed(c, payloads, k) ==
    IF k > Len(payloads) THEN <<>>
    ELSE ToSubscribers(c, payloads[k]) \o Flushed(c, payloads, k + 1)

\* C4 as stated: when a notification of domain D arrives, every channel that
\* has enabled D and is not suppressed for D (its name does not contain the
\* configured substring, or D is not Debugger) hands it at once to each of
\* its subscribers, in registration order, and leaves its pending buffer as
\* it was.
C4_LiveToEnabledUnsuppressed ==
    [][NotificationArrives =>
        LET D == DomainOf(last'.msg.method)
        IN  \A c \in ChannelIds :
              (D \in channels[c + 1].enabledDomains /\ ~SuppressedFor(channels[c + 1], D)) =>
                 /\ delivered'[c + 1] = delivered[c + 1] \o ToSubscribers(c, last'.msg)
                 /\ channels'[c + 1].pendingMessagesForDomain =
                        channels[c + 1].pendingMessagesForDomain]_vars

\* Every notification in a channel's record is of a domain the channel has enabled.
OnlyEnabledDomainsDelivered ==
    \A c \in ChannelIds : \A k \in 1..Len(delivered[c + 1]) :
        delivered[c + 1][k].data.id = NoId =>
            DomainOf(delivered[c + 1][k].data.method) \in channels[c + 1].enabledDomains

C6_EnableFlushes ==
    [][\A c \in ChannelIds, D \in Domains :
        (EnableSent(c, D) /\ ~channels[c + 1].pendingIsNull) =>
           /\ delivered'[c + 1] =
                 delivered[c + 1] \o Flushed(c, Pending(channels[c + 1], D), 1)
           /\ D \notin DOMAIN channels'[c + 1].pendingMessagesForDomain
           /\ D \in channels[c + 1].enabledDomains => delivered'[c + 1] = delivered[c + 1]]_vars

\* C7 as stated: within one channel, the notifications of one domain reach a
\* subscriber in the order in which they arrived on the transport (the body
\* of a notification is its arrival number).
C7_ArrivalOrder ==
    \A c \in ChannelIds :
        \A i, j \in 1..Len(delivered[c + 1]) :
            LET a == delivered[c + 1][i]
                b == delivered[c + 1][j]
            IN  (/\ i < j
                 /\ a.cb = b.cb
                 /\ a.data.id = NoId
                 /\ b.data.id = NoId
                 /\ DomainOf(a.data.method) = DomainOf(b.data.method))
                => a.data.body <= b.data.body

\* No payload that a channel held when its timer fired is in the channel's record.
DiscardedNeverDelivered ==
    \A c \in ChannelIds : \A k \in 1..Len(delivered[c + 1]) :
        <<c, delivered[c + 1][k].data>> \notin discarded

\* C8: when a channel's eviction timer fires, the payloads it holds are
\* discarded and the channel is tombstoned for good; none of those payloads
\* ever reaches a subscriber of the channel, also after the domain is enabled;
\* and a later notification of a domain the tombstoned channel has not
\* enabled leaves the channel and its record as they were.
C8_DiscardedForGood ==
    /\ []DiscardedNeverDelivered
    /\ [][\A c \in ChannelIds :
            /\ (last'.op = "timer" /\ last'.ch = c) =>
                  /\ channels'[c + 1].pendingIsNull
                  /\ channels'[c + 1].pendingMessagesForDomain = EmptyMap
                  /\ PendingPayloads(channels[c + 1]) \subseteq discarded'
            /\ channels[c + 1].pendingIsNull => channels'[c + 1].pendingIsNull
            /\ (/\ NotificationArrives
                /\ channels[c + 1].pendingIsNull
                /\ DomainOf(last'.msg.method) \notin channels[c + 1].enabledDomains) =>
                  /\ channels'[c + 1] = channels[c + 1]
                  /\ delivered'[c + 1] = delivered[c + 1]]_vars

\* A channel with a subscriber lost a payload to its timer, then enabled the
\* payload's domain and got nothing, and a notification of the other domain,
\* which it has not enabled, has just been dropped.
C8_Witness ==
    /\ last.op = "notification"
    /\ \E c \in ChannelIds :
          /\ channels[c + 1].pendingIsNull
          /\ Len(channels[c + 1].messageCallbacks) > 0
          /\ DomainOf(last.msg.method) \notin channels[c + 1].enabledDomains
          /\ delivered[c + 1] = <<>>
          /\ \E x \in discarded :
                x[1] = c /\ DomainOf(x[2].method) \in channels[c + 1].enabledDomains

\* No notification of the Debugger domain is in the record or in the buffer
\* of a channel whose name contains the configured substring.
NoDebuggerForSuppressed ==
    \A c \in ChannelIds :
        NameSuppressed(channels[c + 1]) =>
           /\ <<"Debugger">> \notin DOMAIN channels[c + 1].pendingMessagesForDomain
           /\ \A k \in 1..Len(delivered[c + 1]) :
                 delivered[c + 1][k].data.id = NoId =>
                     DomainOf(delivered[c + 1][k].data.method) # <<"Debugger">>

\* What the arrival of a Debugger notification does to a channel whose name
\* contains the configured substring: nothing.
SuppressedUntouched(c) ==
    /\ channels'[c + 1] = channels[c + 1]
    /\ delivered'[c + 1] = delivered[c + 1]

\* The notification is handed to the subscribers of channel c, which has enabled D.
GetsLive(c, D) ==
    /\ D \in channels[c + 1].enabledDomains
    /\ delivered'[c + 1] = delivered[c + 1] \o ToSubscribers(c, last'.msg)
    /\ channels'[c + 1] = channels[c + 1]

\* The notification is appended to the buffer of channel c for D.
GetsBuffered(c, D) ==
    /\ Pending(channels'[c + 1], D) = Append(Pending(channels[c + 1], D), last'.msg)
    /\ delivered'[c + 1] = delivered[c + 1]

\* C10 as stated: with a non-empty configured substring, a Debugger
\* notification never reaches the subscribers or the buffer of a channel
\* whose name contains it, whatever the channel enabled; every other channel
\* gets it live or buffered.
C10_AsStated ==
    /\ []NoDebuggerForSuppressed
    /\ [][(/\ NotificationArrives
           /\ channelWithNoDebuggerNotification # <<>>
           /\ DomainOf(last'.msg.method) = <<"Debugger">>) =>
            \A c \in ChannelIds :
                IF NameSuppressed(channels[c + 1])
                THEN SuppressedUntouched(c)
                ELSE GetsLive(c, <<"Debugger">>) \/ GetsBuffered(c, <<"Debugger">>)]_vars

\* C10 amended: the same, but a channel whose name does not contain the
\* substring gets the notification live when it has enabled Debugger,
\* buffered when it has not and is not tombstoned, and not at all when it has
\* not and is tombstoned.
C10_SuppressedNeverOthersGated ==
    /\ []NoDebuggerForSuppressed
    /\ [][(/\ NotificationArrives
           /\ channelWithNoDebuggerNotification # <<>>
           /\ DomainOf(last'.msg.method) = <<"Debugger">>) =>
            \A c \in ChannelIds :
                IF NameSuppressed(channels[c + 1])
                THEN SuppressedUntouched(c)
                ELSE IF <<"Debugger">> \in channels[c + 1].enabledDomains
                THEN GetsLive(c, <<"Debugger">>)
                ELSE IF ~channels[c + 1].pendingIsNull
                THEN GetsBuffered(c, <<"Debugger">>)
                ELSE SuppressedUntouched(c)]_vars

\* A Debugger notification has just arrived; the channel whose name contains
\* the substring has a subscriber and has enabled Debugger, and got nothing,
\* while the other channel has the notification in its buffer.
C10_Witness ==
    /\ last.op = "notification"
    /\ DomainOf(last.msg.method) = <<"Debugger">>
    /\ \E c \in ChannelIds :
          /\ NameSuppressed(channels[c + 1])
          /\ <<"Debugger">> \in channels[c + 1].enabledDomains
          /\ Len(channels[c + 1].messageCallbacks) > 0
          /\ delivered[c + 1] = <<>>
          /\ channels[c + 1].pendingMessagesForDomain = EmptyMap
    /\ \E o \in ChannelIds :
          /\ ~NameSuppressed(channels[o + 1])
          /\ Pending(channels[o + 1], <<"Debugger">>) = <<last.msg>>

\* C11: a send of a message that carries no id fails with an error and puts
\* nothing on the transport.
C11_NoIdNotTransmitted ==
    [][(last'.op = "send" /\ last'.msg.id = NoId) =>
           /\ last'.err # "none"
           /\ socketSent' = socketSent
           /\ requests' = requests]_vars

\* A send without an id has just failed on a channel that sent a request
\* with an id before: the transport holds that one message only.
C11_Witness ==
    /\ last.op = "send"
    /\ last.msg.id = NoId
    /\ last.err = "sent a message without an id"
    /\ Len(socketSent) = 1
    /\ requests[1].channel = last.ch

\* What the domain-gated delivery of channel c does with the notification
\* that has just arrived.
HandedToDomainGate(c) ==
    LET gated == callDomainMessageCallbacks(channels[c + 1], DomainOf(last'.msg.method),
                                            last'.msg)
    IN  /\ channels'[c + 1] = gated.chan
        /\ delivered'[c + 1] = delivered[c + 1] \o gated.out

\* C12 as stated: the fan-out skips a channel only when the configured
\* substring is non-empty and in the channel's name and the domain of the
\* notification is Debugger; every other channel, and every channel when the
\* domain is not Debugger, gets the notification through its domain-gated
\* delivery.
C12_SkippedOnlyForDebuggerDomain ==
    [][NotificationArrives =>
        \A c \in ChannelIds :
            IF SuppressedFor(channels[c + 1], DomainOf(last'.msg.method))
            THEN SuppressedUntouched(c)
            ELSE HandedToDomainGate(c)]_vars

\* C13 as stated: a channel starts its eviction timer only at the first
\* 'message' subscription it ever gets, so that over any sequence of
\* subscriptions and removals setTimeout is called at most once per channel;
\* and a tombstoned channel stays tombstoned.
C13_AtMostOneTimer ==
    /\ [](\A c \in ChannelIds : channels[c + 1].timersStarted <= 1)
    /\ [][\A c \in ChannelIds :
            channels[c + 1].pendingIsNull => channels'[c + 1].pendingIsNull]_vars

\* C14 as stated: on a channel that is not tombstoned an enabled domain has
\* no buffer, and a notification of an enabled domain adds nothing to the
\* channel's buffers.
C14_EnabledDomainHasNoBuffer ==
    /\ [](\A c \in ChannelIds :
            ~channels[c + 1].pendingIsNull =>
                \A D \in channels[c + 1].enabledDomains :
                    D \notin DOMAIN channels[c + 1].pendingMessagesForDomain)
    /\ [][NotificationArrives =>
            \A c \in ChannelIds :
                DomainOf(last'.msg.method) \in channels[c + 1].enabledDomains =>
                    channels'[c + 1].pendingMessagesForDomain =
                        channels[c + 1].pendingMessagesForDomain]_vars

\* The list without the first occurrence of cb; the list itself when cb is not in it.
RECURSIVE WithoutFirst(_, _)
WithoutFirst(list, cb) ==
    IF list = <<>> THEN <<>>
    ELSE IF Head(list) = cb THEN Tail(list)
    ELSE <<Head(list)>> \o WithoutFirst(Tail(list), cb)

\* C15 as stated: removeListener('message', cb) takes cb, and nothing else,
\* out of the channel's subscribers, the others keeping their order; when cb
\* is not registered the subscribers stay as they are.
C15_RemovesOnlyCb ==
    [][last'.op = "removeListener" =>
        LET c == last'.ch
        IN  /\ channels'[c + 1].messageCallbacks =
                  WithoutFirst(channels[c + 1].messageCallbacks, last'.cb)
            /\ \A o \in ChannelIds \ {c} : channels'[o + 1] = channels[o + 1]]_vars

\* C16: when the transport delivers a message with an id whose last decimal
\* digit is the index of no channel, onMessage fails with an error, no
\* subscriber of any channel gets anything, and no channel changes.
C16_UnknownChannelFails ==
    [][(last'.op = "response" /\ last'.msg.id[1] % 10 >= Len(channels)) =>
           /\ last'.err # "none"
           /\ delivered' = delivered
           /\ channels' = channels]_vars

\* The response 52 has just failed on a multiplexor with two channels, of
\* which channel 1 has a subscriber that got an earlier response.
C16_Witness ==
    /\ last.op = "response"
    /\ last.msg.id = <<52>>
    /\ last.err = "Didn't find channel"
    /\ Len(channels) = 2
    /\ Len(channels[2].messageCallbacks) > 0
    /\ Len(delivered[2]) = Len(channels[2].messageCallbacks)

\* C17: when the transport delivers a notification whose method does not
\* split into exactly two parts at the dots, onMessage fails with an error
\* and no channel gets the notification, neither delivered nor buffered.
C17_MalformedMethodFails ==
    [][(last'.op = "notification" /\ Len(Split(last'.msg.method)) # 2) =>
           /\ last'.err # "none"
           /\ delivered' = delivered
           /\ channels' = channels]_vars

\* A notification with a three-part method has just failed; channel 1 has a
\* subscriber and has enabled Debugger and got nothing, channel 0 has enabled
\* nothing and buffered nothing.
C17_Witness ==
    /\ last.op = "notification"
    /\ last.msg.method = ThreePartMethod
    /\ last.err # "none"
    /\ <<"Debugger">> \in channels[2].enabledDomains
    /\ Len(channels[2].messageCallbacks) > 0
    /\ delivered[2] = <<>>
    /\ channels[1].enabledDomains = {}
    /\ channels[1].pendingMessagesForDomain = EmptyMap

\* on('message', ...) was never called on the channel: the first call on a
\* channel always calls setTimeout.
NeverSubscribed(ch) == ch.timersStarted = 0

\* A channel that was never subscribed to is not tombstoned, has no timer
\* running, and none of its payloads was discarded.
NeverSubscribedNeverTombstoned ==
    \A c \in ChannelIds :
        NeverSubscribed(channels[c + 1]) =>
           /\ ~channels[c + 1].pendingIsNull
           /\ channels[c + 1].timers = 0
           /\ Len(channels[c + 1].messageCallbacks) = 0
           /\ \A x \in discarded : x[1] # c

EnableTransmitted(c, D) ==
    \E k \in 1..Len(requests) :
        /\ requests[k].channel = c
        /\ requests[k].message.method = D \o <<".", "enable">>

\* C19 as stated: a send that fails leaves every channel as it was, so that
\* a channel's subscribers get notifications only of domains whose enable
\* request the channel transmitted.
C19_FailedSendChangesNothing ==
    /\ [][(last'.op = "send" /\ last'.err # "none") => channels' = channels]_vars
    /\ [](\A c \in ChannelIds : \A k \in 1..Len(delivered[c + 1]) :
            delivered[c + 1][k].data.id = NoId =>
                EnableTransmitted(c, DomainOf(delivered[c + 1][k].data.method)))

\* The number of times callback cb of channel c was handed the notification
\* that arrived as the n-th message.
TimesDelivered(c, cb, n) ==
    Cardinality({k \in 1..Len(delivered[c + 1]) :
        /\ delivered[c + 1][k].cb = cb
        /\ delivered[c + 1][k].data.id = NoId
        /\ delivered[c + 1][k].data.body = n})

\* The number of times cb is registered on channel c.
TimesRegistered(c, cb) ==
    Cardinality({k \in 1..Len(channels[c + 1].messageCallbacks) :
        channels[c + 1].messageCallbacks[k] = cb})

\* The payloads this step adds to the record of channel c.
NewlyDelivered(c) ==
    {delivered'[c + 1][k].data : k \in (Len(delivered[c + 1]) + 1)..Len(delivered'[c + 1])}

\* C20: each notification received from the transport is handed to a
\* subscriber of a channel at most once for each time the subscriber is
\* registered, whatever enables, subscriptions and timers come between; and
\* every payload a subscriber is handed was received from the transport: it
\* is the notification that arrives in this step or one the channel buffered
\* when it arrived.
C20_NoDuplicationNoInvention ==
    /\ [](\A c \in ChannelIds : \A cb \in CallbacksOf(c) : \A n \in 1..received :
            TimesDelivered(c, cb, n) <= TimesRegistered(c, cb))
    /\ [][\A c \in ChannelIds :
            /\ Len(delivered'[c + 1]) >= Len(delivered[c + 1])
            /\ \A x \in NewlyDelivered(c) :
                  \/ NotificationArrives /\ x = last'.msg
                  \/ <<c, x>> \in PendingPayloads(channels[c + 1])
            /\ \A y \in PendingPayloads(channels'[c + 1]) \ PendingPayloads(channels[c + 1]) :
                  NotificationArrives /\ y = <<c, last'.msg>>]_vars

\* A channel with one subscriber buffered a notification, flushed it with an
\* enable request, and has just sent the same enable request again: the
\* subscriber has the notification once.
C20_Witness ==
    /\ last.op = "send"
    /\ \E c \in ChannelIds :
          /\ last.ch = c
          /\ Len(channels[c + 1].messageCallbacks) = 1
          /\ Len(delivered[c + 1]) = 1
          /\ delivered[c + 1][1].data.body = 1
          /\ Len(requests) = 2
          /\ requests[1] = requests[2]
          /\ requests[1].channel = c
          /\ requests[1].message.method = DomainOf(delivered[c + 1][1].data.method) \o <<".", "enable">>

====
